---- MODULE Spec2Model ----
(***************************************************************************)
(* Verification model of the investment_dashboard batch scripts:           *)
(*   src/main.py                    JPX weekly PDF -> history.csv, chart   *)
(*   src/.github/workflows/main.py  JPX Excel -> history.csv (Date column) *)
(*   src/shutai_scraper.py          nikkei225jp table -> shutai_data.json  *)
(*   src/sector_manager.py          history.csv + Yahoo -> sector_data.json*)
(* Strings are sequences of one-character strings, so that parsing and     *)
(* formatting are computed and not assumed.  Every script has its own      *)
(* specification over the shared variable list; the variables of the       *)
(* other scripts stay at their initial value.                              *)
(***************************************************************************)
EXTENDS Integers, Sequences, FiniteSets, TLC

VARIABLES
    url_parts,      \* extract_date_from_filename: the pieces the URL is built from
    date_result,    \* extract_date_from_filename: Pending, None or the date string
    pdf_tables,     \* extract_from_pdf: page.extract_tables() of the first page
    pdf_result,     \* extract_from_pdf: pending, the returned balance or the raise
    csv,            \* main.py: the file history.csv
    trend_png,      \* main.py: trend.png exists
    pc,             \* main.py: the statement main() is at, "idle" between runs
    runs,           \* main.py: runs of main() started so far
    should_get_historical,  \* main: the flag of lines 397-412
    all_urls,       \* process_historical_data: the collected URLs
    idx,            \* process_historical_data: URLs taken by the for loop
    visited,        \* process_historical_data: the indices the loop has taken, in order
    counts,         \* process_historical_data: success_count, skip_count, error_count
    pdf_url,        \* main: pdf_url; process_historical_data: url
    date_str,       \* date_str of the URL at hand
    balance,        \* balance extracted from the PDF at hand
    calls,          \* main: the latest-data steps called in this run, with their outcome
    exit_kind,      \* main: how the run ends, "returned" or "raised"
    history_csv,    \* workflows/main.py: the file history.csv (Date, ForeignBalance)
    upd_pc,         \* update_data: the statement it is at
    date_label,     \* update_data: the cell read from the Excel sheet
    label_value,    \* update_data: value
    graphs,         \* generate_graph: times trend.png was drawn
    upd_runs,       \* runs of update_data() started so far
    shutai_json,    \* shutai_scraper.py: the file data/shutai_data.json
    sh_pc,          \* scrape_shutai_data: the statement it is at
    debug_mode,     \* shutai_scraper.py: DEBUG_MODE of the run
    new_data,       \* scrape_shutai_data: the records scraped from the table
    sh_runs,        \* runs of scrape_shutai_data() started so far
    sectors_json,   \* sector_manager.py: the file sectors.json
    sector_data_json,   \* sector_manager.py: the file sector_data.json
    sec_pc,         \* sector_manager main: the statement it is at
    market_returns, \* sector_manager main: the weekly returns fetched
    jpx_row,        \* sector_manager main: rows of jpx_reset the loop has taken
    output_data,    \* sector_manager main: output["data"]
    sec_written,    \* sector_manager main: this run has written sector_data.json
    sec_runs        \* runs of sector_manager main() started so far

dateVars == <<url_parts, date_result>>
pdfVars == <<pdf_tables, pdf_result>>
fileVars == <<csv, trend_png>>
loopVars == <<all_urls, idx, visited, counts>>
localVars == <<pdf_url, date_str, balance>>
mainVars ==
    <<fileVars, pc, runs, should_get_historical, loopVars, localVars, calls, exit_kind>>

updVars == <<history_csv, upd_pc, date_label, label_value, graphs, upd_runs>>
shVars == <<shutai_json, sh_pc, debug_mode, new_data, sh_runs>>
secVars ==
    <<sectors_json, sector_data_json, sec_pc, market_returns, jpx_row,
      output_data, sec_written, sec_runs>>

notMainVars == <<dateVars, pdfVars, updVars, shVars, secVars>>

vars == <<dateVars, pdfVars, mainVars, updVars, shVars, secVars>>

----------------------------------------------------------------------------
(* Python values and strings                                               *)

\* None, kept comparable with the strings (sequences of characters)
None == <<"None">>

\* a result that has not been computed yet
Pending == <<"pending">>

Digit == {"0", "1", "2", "3", "4", "5", "6", "7", "8", "9"}

\* F(x) with x evaluated once: the value of a Python expression is bound to
\* a name, and the name is then used
Then(x, F(_)) == CHOOSE r \in {F(v) : v \in {x}} : TRUE

\* int() of one decimal digit
DigitVal(c) ==
    CASE c = "0" -> 0 [] c = "1" -> 1 [] c = "2" -> 2 [] c = "3" -> 3
      [] c = "4" -> 4 [] c = "5" -> 5 [] c = "6" -> 6 [] c = "7" -> 7
      [] c = "8" -> 8 [] c = "9" -> 9

DigitChar(n) ==
    CASE n = 0 -> "0" [] n = 1 -> "1" [] n = 2 -> "2" [] n = 3 -> "3"
      [] n = 4 -> "4" [] n = 5 -> "5" [] n = 6 -> "6" [] n = 7 -> "7"
      [] n = 8 -> "8" [] n = 9 -> "9"

\* int(s) for a string of decimal digits
ParseInt(s) ==
    LET F[i \in 0..Len(s)] ==
            IF i = 0 THEN 0 ELSE F[i - 1] * 10 + DigitVal(s[i])
    IN  F[Len(s)]

\* str(n) for n >= 0
Decimal(n) ==
    LET F[m \in 0..n] ==
            IF m < 10 THEN <<DigitChar(m)>>
            ELSE F[m \div 10] \o <<DigitChar(m % 10)>>
    IN  F[n]

\* zero padding of the format specs 02d and 04d
ZeroPad(s, width) ==
    IF Len(s) >= width THEN s ELSE [i \in 1..(width - Len(s)) |-> "0"] \o s

\* f"{n:0<width>d}"
FormatInt(n, width) == Then(Decimal(n), LAMBDA s : ZeroPad(s, width))

\* the literal lit occurs in s at position i
LitAt(s, i, lit) ==
    /\ i + Len(lit) - 1 <= Len(s)
    /\ \A j \in 1..Len(lit) : s[i + j - 1] = lit[j]

\* s[a..b] lies in s and consists of digits only
DigitsAt(s, a, b) ==
    /\ b <= Len(s)
    /\ \A j \in a..b : s[j] \in Digit

----------------------------------------------------------------------------
(* src/main.py: extract_date_from_filename                                 *)

StockVal == <<"s", "t", "o", "c", "k", "_", "v", "a", "l", "_">>
Underscore == <<"_">>
DotPdf == <<".", "p", "d", "f">>
Dash == <<"-">>

\* stock_val_\d+_(\d{6})\.pdf matches at position i with a \d+ of k digits
MatchAt(url, i, k) ==
    LET p == i + Len(StockVal)
    IN  /\ LitAt(url, i, StockVal)
        /\ k >= 1
        /\ DigitsAt(url, p, p + k - 1)
        /\ LitAt(url, p + k, Underscore)
        /\ DigitsAt(url, p + k + 1, p + k + 6)
        /\ LitAt(url, p + k + 7, DotPdf)

Matches(url, i) == \E k \in 1..Len(url) : MatchAt(url, i, k)

\* re.search: group(1) of the leftmost match, None without a match
re_search(url) ==
    LET starts == {i \in 1..Len(url) : Matches(url, i)}
    IN  IF starts = {} THEN None
        ELSE Then(CHOOSE a \in starts : \A b \in starts : a <= b, LAMBDA i :
             Then(CHOOSE c \in 1..Len(url) : MatchAt(url, i, c), LAMBDA k :
             Then(i + Len(StockVal) + k + 1, LAMBDA g : SubSeq(url, g, g + 5))))

MinYear == 23

\* mutant: the year test is off by one (2023 excluded as well)
extract_date_from_filename_Strict(url) ==
    Then(re_search(url), LAMBDA group1 :
        IF group1 = None THEN None
        ELSE Then(ParseInt(SubSeq(group1, 1, 2)), LAMBDA yy :
             Then(ParseInt(SubSeq(group1, 3, 4)), LAMBDA month :
             Then(ParseInt(SubSeq(group1, 5, 6)), LAMBDA day :
                 IF yy > MinYear
                 THEN FormatInt(2000 + yy, 4) \o Dash \o FormatInt(month, 2)
                          \o Dash \o FormatInt(day, 2)
                 ELSE None))))

extract_date_from_filename(url) ==
    Then(re_search(url), LAMBDA group1 :
        IF group1 = None THEN None
        ELSE Then(ParseInt(SubSeq(group1, 1, 2)), LAMBDA yy :
             Then(ParseInt(SubSeq(group1, 3, 4)), LAMBDA month :
             Then(ParseInt(SubSeq(group1, 5, 6)), LAMBDA day :
                 IF yy >= MinYear
                 THEN FormatInt(2000 + yy, 4) \o Dash \o FormatInt(month, 2)
                          \o Dash \o FormatInt(day, 2)
                 ELSE None))))

----------------------------------------------------------------------------
(* src/main.py: extract_from_pdf                                           *)
(* A cell is None or a string; in a cell's string the key words are single *)
(* elements and everything else is a sequence of characters.               *)

\* the Japanese key words, written in Latin letters:
\* kaigai toshika (foreign investors), uri (sales), kai (purchases)
KwKaigai == "kaigai_toshika"
KwForeigners == "Foreigners"
KwUri == "uri"
KwSales == "Sales"
KwKai == "kai"
KwPurchases == "Purchases"
Space == " "
Comma == ","

\* the amount that was not found (sell_amount / buy_amount is None)
NoAmount == -1

AmountThreshold == 1000000000

Return(v) == [kind |-> "return", value |-> v, error |-> "none"]
Raise(e) == [kind |-> "raise", value |-> 0, error |-> e]
PendingResult == [kind |-> "pending", value |-> 0, error |-> "none"]
\* the scan of one table ended without a return
NotFound == [kind |-> "notfound", value |-> 0, error |-> "none"]

\* str(cell) if cell else ''
CellText(cell) == IF cell = None THEN <<>> ELSE cell

\* ' '.join([str(cell) if cell else '' for cell in row])
RECURSIVE JoinCells(_)
JoinCells(row) ==
    IF row = <<>> THEN <<>>
    ELSE IF Len(row) = 1 THEN CellText(row[1])
    ELSE CellText(row[1]) \o <<Space>> \o JoinCells(Tail(row))

\* kw in text
Contains(text, kw) == \E i \in 1..Len(text) : text[i] = kw

\* str(cell).strip() is not empty
StripNonEmpty(text) == \E i \in 1..Len(text) : text[i] # Space

\* the number of consecutive digits of s from position i on
RECURSIVE DigitRun(_, _)
DigitRun(s, i) ==
    IF i <= Len(s) /\ s[i] \in Digit THEN 1 + DigitRun(s, i + 1) ELSE 0

\* the number of consecutive groups ,ddd of s from position p on
RECURSIVE CommaGroups(_, _)
CommaGroups(s, p) ==
    IF /\ p + 3 <= Len(s)
       /\ s[p] = Comma
       /\ \A j \in 1..3 : s[p + j] \in Digit
    THEN 1 + CommaGroups(s, p + 4)
    ELSE 0

\* length of the match of \d{1,3}(?:,\d{3})+ at position i, 0 without one
AmountMatchLen(s, i) ==
    LET run == DigitRun(s, i)
    IN  IF run \in 1..3 /\ CommaGroups(s, i + run) >= 1
        THEN run + 4 * CommaGroups(s, i + run)
        ELSE 0

\* re.search(r'\d{1,3}(?:,\d{3})+', s).group(), None without a match
re_search_amount(s) ==
    IF \E i \in 1..Len(s) : AmountMatchLen(s, i) > 0
    THEN LET i == CHOOSE a \in 1..Len(s) :
                     /\ AmountMatchLen(s, a) > 0
                     /\ \A b \in 1..(a - 1) : AmountMatchLen(s, b) = 0
         IN  SubSeq(s, i, i + AmountMatchLen(s, i) - 1)
    ELSE None

\* match.group().replace(',', '')
RemoveCommas(s) == SelectSeq(s, LAMBDA c : c # Comma)

\* the loop over the cells of a row: the first cell whose first
\* comma-grouped number is at least the threshold gives the amount
RECURSIVE first_amount(_, _)
first_amount(row, c) ==
    IF c > Len(row) THEN NoAmount
    ELSE LET cell == row[c]
             text == CellText(cell)
             match == re_search_amount(text)
         IN  IF cell # None /\ text # <<>> /\ StripNonEmpty(text) /\ match # None
             THEN LET value == ParseInt(RemoveCommas(match))
                  IN  IF value >= AmountThreshold THEN value
                      ELSE first_amount(row, c + 1)
             ELSE first_amount(row, c + 1)

\* the condition on the sales row (line 182)
IsSalesRow(row) ==
    LET row_text == JoinCells(row)
    IN  /\ Contains(row_text, KwKaigai) \/ Contains(row_text, KwForeigners)
        /\ Contains(row_text, KwUri) \/ Contains(row_text, KwSales)

\* the condition on the row after it (line 216)
IsBuyRow(next_row) ==
    LET next_row_text == JoinCells(next_row)
    IN  \/ Contains(next_row_text, KwKai)
        \/ Contains(next_row_text, KwPurchases)
        \/ Contains(next_row_text, KwForeigners)

\* buy_amount of the row after row_idx (lines 208-231)
buy_amount_of(table, row_idx) ==
    IF row_idx + 1 <= Len(table) /\ IsBuyRow(table[row_idx + 1])
    THEN first_amount(table[row_idx + 1], 1)
    ELSE NoAmount

\* mutant: the difference is taken the other way round
Balance_Swapped(buy_amount, sell_amount) == sell_amount - buy_amount

Balance(buy_amount, sell_amount) == buy_amount - sell_amount

\* the loop over the rows of one table, from row row_idx (1-based) on
RECURSIVE scan_rows(_, _)
scan_rows(table, row_idx) ==
    IF row_idx > Len(table) THEN NotFound
    ELSE LET row == table[row_idx]
         IN  IF row = <<>> THEN scan_rows(table, row_idx + 1)
             ELSE IF ~IsSalesRow(row) THEN scan_rows(table, row_idx + 1)
             ELSE LET sell_amount == first_amount(row, 1)
                      buy_amount == buy_amount_of(table, row_idx)
                  IN  IF sell_amount = NoAmount
                      THEN scan_rows(table, row_idx + 1)
                      ELSE IF buy_amount = NoAmount
                      THEN scan_rows(table, row_idx + 1)
                      ELSE Return(Balance(buy_amount, sell_amount))

\* the loop over the tables, from table table_num (1-based) on
RECURSIVE scan_tables(_, _)
scan_tables(tables, table_num) ==
    IF table_num > Len(tables) THEN Raise("ValueError")
    ELSE LET r == scan_rows(tables[table_num], 1)
         IN  IF r.kind = "return" THEN r
             ELSE scan_tables(tables, table_num + 1)

extract_from_pdf(tables) ==
    IF tables = <<>> THEN Raise("ValueError") ELSE scan_tables(tables, 1)

----------------------------------------------------------------------------
(* src/main.py: history.csv and save_to_csv                                *)
(* history.csv is missing, unreadable (EmptyDataError / ParserError) or a  *)
(* header with data rows [date, balance]; date is the text of the cell.    *)

NoFile == [state |-> "missing", rows |-> <<>>]
CorruptFile == [state |-> "corrupt", rows |-> <<>>]
CsvFile(rows) == [state |-> "rows", rows |-> rows]

\* datetime.now().strftime('%Y-%m-%d'), the default of date_str
Today == <<"2", "0", "2", "6", "-", "1", "1", "-", "0", "4">>

IsLeap(y) == (y % 4 = 0 /\ y % 100 # 0) \/ y % 400 = 0

DaysInMonth(y, m) ==
    IF m = 2 THEN (IF IsLeap(y) THEN 29 ELSE 28)
    ELSE IF m \in {4, 6, 9, 11} THEN 30 ELSE 31

\* the fields of a text YYYY-MM-DD
DateFields(text) ==
    [year |-> ParseInt(SubSeq(text, 1, 4)),
     month |-> ParseInt(SubSeq(text, 6, 7)),
     day |-> ParseInt(SubSeq(text, 9, 10))]

\* pd.to_datetime raises for a text that is no calendar date
ValidDate(text) ==
    Then(DateFields(text), LAMBDA f :
        /\ f.month \in 1..12
        /\ f.day \in 1..DaysInMonth(f.year, f.month))

\* pd.to_datetime of one text: the timestamp, as a number that orders dates
to_datetime(text) ==
    Then(DateFields(text), LAMBDA f : f.year * 10000 + f.month * 100 + f.day)

\* dt.strftime('%Y-%m-%d') of one timestamp
strftime(ts) ==
    FormatInt(ts \div 10000, 4) \o Dash \o FormatInt((ts \div 100) % 100, 2)
        \o Dash \o FormatInt(ts % 100, 2)

\* mutant: the duplicates are not dropped
drop_duplicates_None(df) == df

\* mutant: keep='first'
drop_duplicates_First(df) ==
    LET keep(i) == \A j \in 1..(i - 1) : df[j].date # df[i].date
        F[i \in 0..Len(df)] ==
            IF i = 0 THEN <<>>
            ELSE IF keep(i) THEN Append(F[i - 1], df[i]) ELSE F[i - 1]
    IN  F[Len(df)]

\* mutant: keep=False, every row of a duplicated date is dropped
drop_duplicates_All(df) ==
    LET keep(i) == \A j \in 1..Len(df) : j # i => df[j].date # df[i].date
        F[i \in 0..Len(df)] ==
            IF i = 0 THEN <<>>
            ELSE IF keep(i) THEN Append(F[i - 1], df[i]) ELSE F[i - 1]
    IN  F[Len(df)]

\* df.drop_duplicates(subset=['date'], keep='last'): a row stays when no
\* later row has the same date text
drop_duplicates(df) ==
    LET keep(i) == \A j \in (i + 1)..Len(df) : df[j].date # df[i].date
        F[i \in 0..Len(df)] ==
            IF i = 0 THEN <<>>
            ELSE IF keep(i) THEN Append(F[i - 1], df[i]) ELSE F[i - 1]
    IN  F[Len(df)]

\* one row put into a sequence sorted by date, after the rows that are
\* not later than it
InsertByDate(sorted, row) ==
    Then(Cardinality({i \in 1..Len(sorted) :
                          \A j \in 1..i : sorted[j].date <= row.date}),
         LAMBDA k :
             SubSeq(sorted, 1, k) \o <<row>> \o SubSeq(sorted, k + 1, Len(sorted)))

\* df.sort_values('date') on the parsed dates
sort_values(df) ==
    LET F[i \in 0..Len(df)] ==
            IF i = 0 THEN <<>>
            ELSE Then(F[i - 1], LAMBDA sorted : InsertByDate(sorted, df[i]))
    IN  F[Len(df)]

\* pd.read_csv(csv_file), or the empty frame when the file is missing
read_rows(file) == IF file.state = "rows" THEN file.rows ELSE <<>>

\* df['date'] = pd.to_datetime(df['date'])
parse_dates(df) ==
    [i \in 1..Len(df) |->
        [date |-> to_datetime(df[i].date), balance |-> df[i].balance]]

\* df['date'] = df['date'].dt.strftime('%Y-%m-%d')
format_dates(df) ==
    [i \in 1..Len(df) |->
        [date |-> strftime(df[i].date), balance |-> df[i].balance]]

\* lines 275-280 on the frame without duplicates: the dates are parsed (a
\* text that is no date raises, before anything is written), the rows are
\* sorted, the dates are formatted and the file is written
sort_and_write(file, df) ==
    IF \A i \in 1..Len(df) : ValidDate(df[i].date)
    THEN Then(parse_dates(df), LAMBDA parsed :
         Then(sort_values(parsed), LAMBDA sorted :
             [ok |-> TRUE, csv |-> CsvFile(format_dates(sorted))]))
    ELSE [ok |-> FALSE, csv |-> file]

\* save_to_csv(value, date_str), date_arg being date_str: ok is FALSE when
\* the call raises, and the file is then as it was
save_to_csv(file, value, date_arg) ==
    IF file.state = "corrupt"
    THEN [ok |-> FALSE, csv |-> file]
    ELSE Then(Append(read_rows(file),
                     [date |-> IF date_arg = None THEN Today ELSE date_arg,
                      balance |-> value]), LAMBDA concat :
         Then(drop_duplicates(concat), LAMBDA df : sort_and_write(file, df)))

----------------------------------------------------------------------------
(* Idle values of the variables a specification does not use               *)

IdleDate ==
    /\ url_parts = <<>>
    /\ date_result = Pending

IdlePdf ==
    /\ pdf_tables = <<>>
    /\ pdf_result = PendingResult

NoCounts == [success |-> 0, skip |-> 0, error |-> 0]

\* the variables of a run of main() before it starts and after it ended
IdleRun ==
    /\ pc = "idle"
    /\ should_get_historical = FALSE
    /\ all_urls = <<>>
    /\ idx = 0
    /\ visited = <<>>
    /\ counts = NoCounts
    /\ pdf_url = None
    /\ date_str = None
    /\ balance = 0
    /\ calls = <<>>
    /\ exit_kind = "none"

IdleMain ==
    /\ csv = NoFile
    /\ trend_png = FALSE
    /\ runs = 0
    /\ IdleRun

\* update_data() before it starts and after it ended
IdleUpdateRun ==
    /\ upd_pc = "idle"
    /\ date_label = [kind |-> "none", text |-> <<>>]
    /\ label_value = 0

IdleUpdate ==
    /\ history_csv = NoFile
    /\ graphs = 0
    /\ upd_runs = 0
    /\ IdleUpdateRun

\* scrape_shutai_data() before it starts and after it ended
IdleShutaiRun ==
    /\ sh_pc = "idle"
    /\ debug_mode = FALSE
    /\ new_data = <<>>

IdleShutai ==
    /\ shutai_json = NoFile
    /\ sh_runs = 0
    /\ IdleShutaiRun

\* main() of sector_manager.py before it starts and after it ended
IdleSectorRun ==
    /\ sec_pc = "idle"
    /\ market_returns = <<>>
    /\ jpx_row = 0
    /\ output_data = <<>>
    /\ sec_written = FALSE

IdleSector ==
    /\ sectors_json = "missing"
    /\ sector_data_json = NoFile
    /\ sec_runs = 0
    /\ IdleSectorRun

----------------------------------------------------------------------------
(* Specification SpecDate: extract_date_from_filename on bounded URLs      *)

UrlHeads == {<<>>, <<"/">>}
UrlNames == {StockVal, <<"s", "t", "o", "c", "k", "_", "v", "o", "l", "_">>}
UrlSerials == {<<>>, <<"1">>, <<"1", "2">>}
UrlYears == {<<"0", "0">>, <<"2", "2">>, <<"2", "3">>, <<"2", "6">>, <<"9", "9">>}
UrlMonths == {<<"0", "0">>, <<"0", "1">>, <<"1", "2">>, <<"1", "3">>}
UrlDays == {<<"0", "1">>, <<"3", "1">>, <<"4", "5">>}
UrlExtras == {<<>>, <<"7">>}
UrlExts == {DotPdf, <<".", "P", "D", "F">>}

UrlParts ==
    [head : UrlHeads, name : UrlNames, serial : UrlSerials, yy : UrlYears,
     mm : UrlMonths, dd : UrlDays, extra : UrlExtras, ext : UrlExts]

BuildUrl(p) ==
    p.head \o p.name \o p.serial \o Underscore \o p.yy \o p.mm \o p.dd
        \o p.extra \o p.ext

InitDate ==
    /\ url_parts \in UrlParts
    /\ date_result = Pending
    /\ IdlePdf
    /\ IdleMain
    /\ IdleUpdate
    /\ IdleShutai
    /\ IdleSector

ExtractDate ==
    /\ date_result = Pending
    /\ date_result' = extract_date_from_filename(BuildUrl(url_parts))
    /\ UNCHANGED <<url_parts, pdfVars, mainVars, updVars, shVars, secVars>>

NextDate == ExtractDate

SpecDate == InitDate /\ [][NextDate]_vars

\* the URL holds a file name stock_val_<digits>_<YYMMDD>.pdf
WellFormedName(p) ==
    /\ p.name = StockVal
    /\ p.serial # <<>>
    /\ p.extra = <<>>
    /\ p.ext = DotPdf

\* C9: for a URL containing stock_val_<digits>_<YYMMDD>.pdf the function
\* returns 20YY-MM-DD with the digits of the file name when YY >= 23 and
\* None when YY < 23; it returns None for a URL that does not match.
C9_DateFromFilename ==
    date_result # Pending =>
        LET p == url_parts
            old == \/ DigitVal(p.yy[1]) < 2
                   \/ DigitVal(p.yy[1]) = 2 /\ DigitVal(p.yy[2]) < 3
        IN  /\ (WellFormedName(p) /\ ~old) =>
                   date_result = <<"2", "0">> \o p.yy \o Dash \o p.mm \o Dash \o p.dd
            /\ (WellFormedName(p) /\ old) => date_result = None
            /\ ~WellFormedName(p) => date_result = None

C9_Witness ==
    /\ date_result = <<"2", "0", "2", "3", "-", "1", "2", "-", "0", "1">>
    /\ url_parts.yy = <<"2", "3">>

----------------------------------------------------------------------------
(* Specification SpecPdf: extract_from_pdf on bounded first pages          *)

MaxRows == 3        \* rows of the page, over all its tables
MaxTables == 2      \* tables of the page

Amount15 == <<"1", ",", "5", "0", "0", ",", "0", "0", "0", ",", "0", "0", "0">>
Amount20 == <<"2", ",", "0", "0", "0", ",", "0", "0", "0", ",", "0", "0", "0">>
Amount12 == <<"1", ",", "2", "0", "0", ",", "0", "0", "0", ",", "0", "0", "0">>
AmountSmall == <<"9", "9", "9", ",", "9", "9", "9", ",", "9", "9", "9">>
AmountPlain == <<"1", "5", "0", "0", "0", "0", "0", "0", "0", "0">>
AmountSecond == <<"1", ",", "0", "0", "0", " ", "2", ",", "0", "0", "0", ",", "0", "0", "0", ",", "0", "0", "0">>

PdfRows ==
    { <<>>,
      << <<KwKaigai, Space, KwUri>>, Amount15 >>,
      << None, <<KwKai>>, AmountSecond, Amount20 >>,
      << <<KwForeigners, Space, KwSales>>, AmountSmall, Amount12 >>,
      << <<KwPurchases>>, Amount12 >>,
      << <<KwForeigners>>, <<KwSales>>, AmountPlain >>,
      << <<"kojin">>, <<KwUri>>, Amount12 >>,
      << <<KwForeigners>>, <<Space>>, Amount20 >> }

SeqsUpTo(S, n) == UNION {[1..k -> S] : k \in 0..n}

RECURSIVE SumSeq(_)
SumSeq(q) == IF q = <<>> THEN 0 ELSE q[1] + SumSeq(Tail(q))

\* the rows cut into tables of the given lengths
RECURSIVE SplitRows(_, _)
SplitRows(rows, lens) ==
    IF lens = <<>> THEN <<>>
    ELSE <<SubSeq(rows, 1, lens[1])>>
             \o SplitRows(SubSeq(rows, lens[1] + 1, Len(rows)), Tail(lens))

\* the first page: at most MaxTables tables with at most MaxRows rows in all
InitPdf ==
    /\ \E rows \in SeqsUpTo(PdfRows, MaxRows) :
           \E lens \in SeqsUpTo(0..MaxRows, MaxTables) :
               /\ SumSeq(lens) = Len(rows)
               /\ pdf_tables = SplitRows(rows, lens)
    /\ pdf_result = PendingResult
    /\ IdleDate
    /\ IdleMain
    /\ IdleUpdate
    /\ IdleShutai
    /\ IdleSector

ExtractPdf ==
    /\ pdf_result = PendingResult
    /\ pdf_result' = extract_from_pdf(pdf_tables)
    /\ UNCHANGED <<pdf_tables, dateVars, mainVars, updVars, shVars, secVars>>

NextPdf == ExtractPdf

SpecPdf == InitPdf /\ [][NextPdf]_vars

\* the qualifying amount of a cell: its first comma-grouped number, when
\* that number is at least 1,000,000,000
QualifyingCell(row, c) ==
    /\ row[c] # None
    /\ re_search_amount(row[c]) # None
    /\ ParseInt(RemoveCommas(re_search_amount(row[c]))) >= AmountThreshold

HasAmount(row) == \E c \in 1..Len(row) : QualifyingCell(row, c)

FirstQualifying(row) ==
    LET c == CHOOSE a \in 1..Len(row) :
                 /\ QualifyingCell(row, a)
                 /\ \A b \in 1..(a - 1) : ~QualifyingCell(row, b)
    IN  ParseInt(RemoveCommas(re_search_amount(row[c])))

\* row r of table t is a foreign-investors sales row with an amount, and the
\* row after it names purchases (or foreigners) and has an amount
PairFound(tables, t, r) ==
    /\ t \in 1..Len(tables)
    /\ r \in 1..(Len(tables[t]) - 1)
    /\ IsSalesRow(tables[t][r])
    /\ HasAmount(tables[t][r])
    /\ IsBuyRow(tables[t][r + 1])
    /\ HasAmount(tables[t][r + 1])

Positions(tables) ==
    {<<t, r>> : t \in 1..Len(tables), r \in 1..MaxRows}

Earlier(a, b) == a[1] < b[1] \/ (a[1] = b[1] /\ a[2] < b[2])

\* C10: extract_from_pdf returns purchases minus sales, the first qualifying
\* amount of the row after the foreign-investors sales row minus the first
\* qualifying amount of that sales row, for the first sales row in table
\* order for which both amounts are found; with no table on the page or no
\* such pair of rows it raises ValueError and returns nothing.
C10_PurchasesMinusSales ==
    pdf_result.kind # "pending" =>
        LET found == {p \in Positions(pdf_tables) : PairFound(pdf_tables, p[1], p[2])}
        IN  IF found = {}
            THEN pdf_result = Raise("ValueError")
            ELSE LET p == CHOOSE a \in found : \A b \in found : ~Earlier(b, a)
                     sales == pdf_tables[p[1]][p[2]]
                     purchases == pdf_tables[p[1]][p[2] + 1]
                 IN  pdf_result =
                         Return(FirstQualifying(purchases) - FirstQualifying(sales))

\* a net seller is returned for a pair that follows an earlier sales row
C10_Witness ==
    /\ pdf_result.kind = "return"
    /\ pdf_result.value = -300000000
    /\ Len(pdf_tables) = 2
    /\ Len(pdf_tables[1]) = 1
    /\ IsSalesRow(pdf_tables[1][1])
    /\ HasAmount(pdf_tables[1][1])

----------------------------------------------------------------------------
(* Specification SpecMain: runs of main() of src/main.py                   *)

MaxRuns == 2        \* runs of main()
MaxUrls == 2        \* URLs the archive pages yield in one run
MaxInitRows == 11   \* rows of the history.csv the first run finds

HistoricalThreshold == 10
DEBUG_LIMIT == 5

JpxUrl(yymmdd) == <<"/">> \o StockVal \o <<"1">> \o Underscore \o yymmdd \o DotPdf

\* the PDF links of the archive pages: a date the initial file has, a date
\* before it, a file name that is no calendar date, a file name of 2022
MainUrls ==
    { JpxUrl(<<"2", "4", "0", "1", "0", "5">>), JpxUrl(<<"2", "3", "1", "2", "0", "4">>),
      JpxUrl(<<"2", "3", "1", "3", "4", "5">>), JpxUrl(<<"2", "2", "1", "2", "2", "6">>) }

\* what extract_from_pdf returns for the PDFs on the site
Balances == {-300000000, 500000000}

BaseRow(i) ==
    [date |-> <<"2", "0", "2", "4", "-", "0", "1", "-">> \o FormatInt(i, 2), balance |-> 500000000]

\* a well-formed history.csv of k rows
BaseFile(k) == CsvFile([i \in 1..k |-> BaseRow(i)])

InitMain ==
    /\ csv \in {NoFile, CorruptFile} \cup {BaseFile(k) : k \in 0..MaxInitRows}
    /\ trend_png = FALSE
    /\ runs = 0
    /\ IdleRun
    /\ IdleDate
    /\ IdlePdf
    /\ IdleUpdate
    /\ IdleShutai
    /\ IdleSector

\* mutant: a file of exactly the threshold's rows is taken as too short
first_run_test_Inclusive(file) ==
    \/ file.state = "missing"
    \/ file.state = "corrupt"
    \/ file.state = "rows" /\ Len(file.rows) <= HistoricalThreshold

\* the first-run test of main(), lines 397-412
first_run_test(file) ==
    \/ file.state = "missing"
    \/ file.state = "corrupt"
    \/ file.state = "rows" /\ Len(file.rows) < HistoricalThreshold

Call(step, ok) == [step |-> step, ok |-> ok]

\* main() starts
MainStart ==
    /\ pc = "idle"
    /\ runs < MaxRuns
    /\ runs' = runs + 1
    /\ should_get_historical' = first_run_test(csv)
    /\ pc' = IF first_run_test(csv) THEN "hist_remove" ELSE "latest_url"
    /\ UNCHANGED <<fileVars, loopVars, localVars, calls, exit_kind>>
    /\ UNCHANGED notMainVars

\* process_historical_data: the existing file is removed
HistRemove ==
    /\ pc = "hist_remove"
    /\ csv' = NoFile
    /\ pc' = "hist_collect"
    /\ UNCHANGED <<trend_png, runs, should_get_historical, loopVars, localVars, calls, exit_kind>>
    /\ UNCHANGED notMainVars

\* all_urls[:DEBUG_LIMIT]
Take(q, n) == SubSeq(q, 1, IF Len(q) < n THEN Len(q) ELSE n)

\* process_historical_data: the URLs of the archive pages are collected
\* (get_all_pdf_urls_by_year yields [] for a page that fails)
HistCollect ==
    /\ pc = "hist_collect"
    /\ \E debug \in BOOLEAN, found \in SeqsUpTo(MainUrls, MaxUrls) :
           all_urls' = IF debug THEN Take(found, DEBUG_LIMIT) ELSE found
    /\ idx' = 0
    /\ visited' = <<>>
    /\ counts' = NoCounts
    /\ pc' = "hist_loop"
    /\ UNCHANGED <<fileVars, runs, should_get_historical, localVars, calls, exit_kind>>
    /\ UNCHANGED notMainVars

\* an iteration of the for loop is over: the next one assigns url,
\* date_str and balance anew before it reads them
IterationEnds ==
    /\ pdf_url' = None
    /\ date_str' = None
    /\ balance' = 0

\* mutant: the loop stays on the URL it has taken
NextIdx_Stay(i) == i

\* enumerate(all_urls, 1): the next iteration takes the next URL
NextIdx(i) == i + 1

\* the for loop takes a URL whose file name gives no date: skipped
HistSkip ==
    /\ pc = "hist_loop"
    /\ idx < Len(all_urls)
    /\ extract_date_from_filename(all_urls[idx + 1]) = None
    /\ idx' = NextIdx(idx)
    /\ visited' = Append(visited, idx + 1)
    /\ counts' = [counts EXCEPT !.skip = @ + 1]
    /\ UNCHANGED <<fileVars, pc, runs, should_get_historical, all_urls, localVars, calls, exit_kind>>
    /\ UNCHANGED notMainVars

\* the for loop takes a URL whose file name gives a date
HistDate ==
    /\ pc = "hist_loop"
    /\ idx < Len(all_urls)
    /\ extract_date_from_filename(all_urls[idx + 1]) # None
    /\ idx' = NextIdx(idx)
    /\ visited' = Append(visited, idx + 1)
    /\ pdf_url' = all_urls[idx + 1]
    /\ date_str' = extract_date_from_filename(all_urls[idx + 1])
    /\ pc' = "hist_download"
    /\ UNCHANGED <<fileVars, runs, should_get_historical, all_urls, counts, balance, calls, exit_kind>>
    /\ UNCHANGED notMainVars

\* download_pdf in the loop; its exception is caught and the loop goes on
HistDownload ==
    /\ pc = "hist_download"
    /\ \E ok \in BOOLEAN :
           IF ok
           THEN pc' = "hist_extract" /\ UNCHANGED <<counts, localVars>>
           ELSE pc' = "hist_loop" /\ counts' = [counts EXCEPT !.error = @ + 1]
                /\ IterationEnds
    /\ UNCHANGED <<fileVars, runs, should_get_historical, all_urls, idx, visited, calls, exit_kind>>
    /\ UNCHANGED notMainVars

\* extract_from_pdf in the loop
HistExtract ==
    /\ pc = "hist_extract"
    /\ \/ \E v \in Balances :
              /\ balance' = v
              /\ pc' = "hist_save"
              /\ UNCHANGED <<counts, pdf_url, date_str>>
       \/ /\ pc' = "hist_loop"
          /\ counts' = [counts EXCEPT !.error = @ + 1]
          /\ IterationEnds
    /\ UNCHANGED <<fileVars, runs, should_get_historical, all_urls, idx, visited, calls, exit_kind>>
    /\ UNCHANGED notMainVars

\* save_to_csv in the loop
HistSave ==
    /\ pc = "hist_save"
    /\ LET r == save_to_csv(csv, balance, date_str)
       IN  /\ csv' = r.csv
           /\ counts' = IF r.ok THEN [counts EXCEPT !.success = @ + 1]
                        ELSE [counts EXCEPT !.error = @ + 1]
    /\ pc' = "hist_loop"
    /\ IterationEnds
    /\ UNCHANGED <<trend_png, runs, should_get_historical, all_urls, idx, visited, calls, exit_kind>>
    /\ UNCHANGED notMainVars

\* the for loop has taken every URL: process_historical_data prints the
\* counts and returns, and its locals are gone
HistDone ==
    /\ pc = "hist_loop"
    /\ idx >= Len(all_urls)
    /\ all_urls' = <<>>
    /\ idx' = 0
    /\ visited' = <<>>
    /\ counts' = NoCounts
    /\ pc' = "latest_url"
    /\ UNCHANGED <<fileVars, runs, should_get_historical, localVars, calls, exit_kind>>
    /\ UNCHANGED notMainVars

\* main: get_latest_pdf_url() returns the first link or raises
LatestUrl ==
    /\ pc = "latest_url"
    /\ \/ \E u \in MainUrls :
              /\ pdf_url' = u
              /\ calls' = Append(calls, Call("get_latest_pdf_url", TRUE))
              /\ pc' = "latest_date"
              /\ UNCHANGED exit_kind
       \/ /\ calls' = Append(calls, Call("get_latest_pdf_url", FALSE))
          /\ exit_kind' = "raised"
          /\ pc' = "finally"
          /\ UNCHANGED pdf_url
    /\ UNCHANGED <<fileVars, runs, should_get_historical, loopVars, date_str, balance>>
    /\ UNCHANGED notMainVars

\* mutant: main goes on without a date
AfterNoDate_GoOn == "latest_download"

\* main returns when no date is extracted (lines 426-428)
AfterNoDate == "finally"

\* main: extract_date_from_filename(pdf_url)
LatestDate ==
    /\ pc = "latest_date"
    /\ LET d == extract_date_from_filename(pdf_url)
       IN  /\ date_str' = d
           /\ calls' = Append(calls, Call("extract_date_from_filename", d # None))
           /\ IF d = None
              THEN pc' = AfterNoDate /\ exit_kind' = "returned"
              ELSE pc' = "latest_download" /\ UNCHANGED exit_kind
    /\ UNCHANGED <<fileVars, runs, should_get_historical, loopVars, pdf_url, balance>>
    /\ UNCHANGED notMainVars

\* main: download_pdf(pdf_url)
LatestDownload ==
    /\ pc = "latest_download"
    /\ \E ok \in BOOLEAN :
           /\ calls' = Append(calls, Call("download_pdf", ok))
           /\ IF ok
              THEN pc' = "latest_extract" /\ UNCHANGED exit_kind
              ELSE pc' = "finally" /\ exit_kind' = "raised"
    /\ UNCHANGED <<fileVars, runs, should_get_historical, loopVars, localVars>>
    /\ UNCHANGED notMainVars

\* main: extract_from_pdf(pdf_path)
LatestExtract ==
    /\ pc = "latest_extract"
    /\ \/ \E v \in Balances :
              /\ balance' = v
              /\ calls' = Append(calls, Call("extract_from_pdf", TRUE))
              /\ pc' = "latest_save"
              /\ UNCHANGED exit_kind
       \/ /\ calls' = Append(calls, Call("extract_from_pdf", FALSE))
          /\ pc' = "finally"
          /\ exit_kind' = "raised"
          /\ UNCHANGED balance
    /\ UNCHANGED <<fileVars, runs, should_get_historical, loopVars, pdf_url, date_str>>
    /\ UNCHANGED notMainVars

\* main: save_to_csv(balance, date_str)
LatestSave ==
    /\ pc = "latest_save"
    /\ LET r == save_to_csv(csv, balance, date_str)
       IN  /\ csv' = r.csv
           /\ calls' = Append(calls, Call("save_to_csv", r.ok))
           /\ IF r.ok
              THEN pc' = "latest_chart" /\ UNCHANGED exit_kind
              ELSE pc' = "finally" /\ exit_kind' = "raised"
    /\ UNCHANGED <<trend_png, runs, should_get_historical, loopVars, localVars>>
    /\ UNCHANGED notMainVars

\* main: create_trend_chart() draws trend.png unless the file is missing or
\* has no rows; reading an unreadable file raises
LatestChart ==
    /\ pc = "latest_chart"
    /\ calls' = Append(calls, Call("create_trend_chart", csv.state # "corrupt"))
    /\ trend_png' = IF csv.state = "rows" /\ Len(csv.rows) > 0 THEN TRUE ELSE trend_png
    /\ exit_kind' = IF csv.state = "corrupt" THEN "raised" ELSE "returned"
    /\ pc' = "finally"
    /\ UNCHANGED <<csv, runs, should_get_historical, loopVars, localVars>>
    /\ UNCHANGED notMainVars

\* the finally clause; the process exits
Finally ==
    /\ pc = "finally"
    /\ pc' = "idle"
    /\ should_get_historical' = FALSE
    /\ all_urls' = <<>>
    /\ idx' = 0
    /\ visited' = <<>>
    /\ counts' = NoCounts
    /\ pdf_url' = None
    /\ date_str' = None
    /\ balance' = 0
    /\ calls' = <<>>
    /\ exit_kind' = "none"
    /\ UNCHANGED <<fileVars, runs>>
    /\ UNCHANGED notMainVars

NextMain ==
    \/ MainStart \/ HistRemove \/ HistCollect \/ HistSkip \/ HistDate
    \/ HistDownload \/ HistExtract \/ HistSave \/ HistDone
    \/ LatestUrl \/ LatestDate \/ LatestDownload \/ LatestExtract
    \/ LatestSave \/ LatestChart \/ Finally

SpecMain == InitMain /\ [][NextMain]_vars

\* a run that has started goes on: every network call has a timeout
FairSpecMain == SpecMain /\ WF_vars(NextMain)

----------------------------------------------------------------------------
(* Claims about main.py                                                    *)

RowSet(file) == {file.rows[i] : i \in 1..Len(file.rows)}
DateSet(file) == {file.rows[i].date : i \in 1..Len(file.rows)}
RowsOfDate(file, d) == {i \in 1..Len(file.rows) : file.rows[i].date = d}

AtSave == pc \in {"hist_save", "latest_save"}

\* C1: history.csv holds at most one row per date, after any sequence of
\* save_to_csv calls that starts from a missing or well-formed file.
C1_OneRowPerDate ==
    \A i, j \in 1..Len(csv.rows) :
        i # j => csv.rows[i].date # csv.rows[j].date

\* the backfill has saved the same date twice and the file has one row
C1_Witness ==
    /\ pc = "hist_loop"
    /\ idx = 2
    /\ all_urls[1] = all_urls[2]
    /\ counts.success = 2
    /\ Len(csv.rows) = 1

\* C2, as stated: a row that was once written is never removed and its
\* balance never changes; runs only add rows.
C2_AppendOnly ==
    [][RowSet(csv) \subseteq RowSet(csv')]_vars

\* C2, amended: but for the deletion of the file at the start of
\* process_historical_data, no step removes a date from history.csv, and a
\* step changes the balance of no date other than the one it saves.
C2_AppendOnlyButBackfill ==
    [][pc # "hist_remove" =>
          /\ DateSet(csv) \subseteq DateSet(csv')
          /\ \A r \in RowSet(csv) :
                 (AtSave /\ r.date = date_str) \/ r \in RowSet(csv')]_vars

\* a run without backfill has added a new first row to a file of ten rows
C2_Witness ==
    /\ pc = "latest_chart"
    /\ ~should_get_historical
    /\ Len(csv.rows) = HistoricalThreshold + 1
    /\ csv.rows[1].date = <<"2", "0", "2", "3", "-", "1", "2", "-", "0", "4">>
    /\ csv.rows[2] = BaseRow(1)

Chain ==
    << "get_latest_pdf_url", "extract_date_from_filename", "download_pdf",
       "extract_from_pdf", "save_to_csv", "create_trend_chart" >>

\* C3: the latest-data steps of a run are called in the fixed order, each
\* one only after all the earlier ones succeeded (a date was extracted), so
\* the save follows four successes and the chart follows the save; a run
\* ends with the whole chain called or with the step that failed.
C3_ChainOrder ==
    /\ Len(calls) <= Len(Chain)
    /\ \A i \in 1..Len(calls) :
           /\ calls[i].step = Chain[i]
           /\ i < Len(calls) => calls[i].ok
    /\ pc = "finally" =>
           /\ calls # <<>>
           /\ Len(calls) = Len(Chain) \/ ~calls[Len(calls)].ok

\* a run has saved the latest value and drawn the chart
C3_Witness ==
    /\ pc = "finally"
    /\ Len(calls) = Len(Chain)
    /\ calls[5].ok
    /\ trend_png

\* the loop has taken the URLs 1..idx, each once and in order, and every
\* URL taken so far was counted as a success, a skip or an error
VisitedOnce ==
    /\ idx <= Len(all_urls)
    /\ visited = [i \in 1..idx |-> i]
    /\ pc = "hist_loop" => counts.success + counts.skip + counts.error = idx

\* C4: every run of main() ends, whatever succeeds or fails; the backfill
\* loop takes each collected URL exactly once and never takes one again.
C4_RunTerminates ==
    /\ []VisitedOnce
    /\ [][pc = "hist_loop" /\ pc' = "latest_url" =>
             visited = [i \in 1..Len(all_urls) |-> i]]_vars
    /\ (pc # "idle") ~> (pc = "idle")

\* the loop is through two URLs, one skipped and one failed
C4_Witness ==
    /\ pc = "hist_loop"
    /\ idx = 2
    /\ Len(all_urls) = 2
    /\ counts.skip = 1
    /\ counts.error = 1

\* C7: a save for a date that already has a row leaves one row for that
\* date, with the value just passed, and leaves the rows of the other
\* dates as they were.
C7_LatestValueKept ==
    [][(AtSave /\ date_str \in DateSet(csv)) =>
          /\ \E i \in 1..Len(csv'.rows) :
                 /\ RowsOfDate(csv', date_str) = {i}
                 /\ csv'.rows[i].balance = balance
          /\ \A r \in RowSet(csv) : r.date # date_str => r \in RowSet(csv')
          /\ \A r \in RowSet(csv') : r.date # date_str => r \in RowSet(csv)]_vars

\* history.csv as the run that starts finds it: missing, fewer than 10 data
\* rows, or unreadable (EmptyDataError / ParserError)
NeedsBackfill ==
    \/ csv.state = "missing"
    \/ csv.state = "corrupt"
    \/ csv.state = "rows" /\ Len(csv.rows) < 10

\* C11: a run of main() goes into process_historical_data exactly when, at
\* its start, history.csv is missing, has fewer than 10 data rows or cannot
\* be read; otherwise it goes straight to the latest PDF, and
\* process_historical_data is entered from nowhere else.
C11_BackfillIff ==
    /\ [][pc = "idle" /\ pc' # "idle" =>
             /\ pc' = "hist_remove" <=> NeedsBackfill
             /\ pc' = "latest_url" <=> ~NeedsBackfill]_vars
    /\ [][pc # "hist_remove" /\ pc' = "hist_remove" => pc = "idle"]_vars

\* the first run found exactly 10 rows and went straight to the latest PDF
C11_Witness ==
    /\ runs = 1
    /\ pc = "latest_url"
    /\ ~should_get_historical
    /\ csv = BaseFile(10)

\* the first run, without backfill, has replaced the balance of 2024-01-05
C7_Witness ==
    /\ pc = "latest_chart"
    /\ runs = 1
    /\ ~should_get_historical
    /\ date_str = BaseRow(5).date
    /\ balance # BaseRow(5).balance
    /\ \E i \in 1..Len(csv.rows) :
           csv.rows[i] = [date |-> date_str, balance |-> balance]

----------------------------------------------------------------------------
(* Specification SpecUpdate: runs of update_data() of                      *)
(* src/.github/workflows/main.py                                           *)
(* A cell of the Excel sheet is a typed value; history.csv holds text.     *)
(* The rows of history.csv are [Date, ForeignBalance], Date being the text *)
(* of the cell in the file.                                                *)

MaxUpdates == 3     \* runs of update_data()

\* the values df.iloc[3, 0] can be: a text, a date cell (read_excel gives a
\* Timestamp) and an empty cell (NaN); text is what str() gives
StrCell(t) == [kind |-> "str", text |-> t]
TimestampCell(t) == [kind |-> "timestamp", text |-> t]
NaN == [kind |-> "nan", text |-> <<>>]

Week1 == <<"2", "0", "2", "4", "/", "0", "1", "/", "0", "5">>
Week2 == <<"2", "0", "2", "4", "/", "0", "1", "/", "1", "2">>
Midnight == <<" ", "0", "0", ":", "0", "0", ":", "0", "0">>

\* the date labels the sheet of a week can carry
DateLabels ==
    { StrCell(Week1), StrCell(Week2),
      TimestampCell(strftime(20240105) \o Midnight), NaN }

\* the balance cells the sheet of a week can carry
BalanceValues == {100, -200}

\* to_csv: the text written for a cell of the Date column
CsvText(cell) == cell.text

\* read_csv: the value read for a text of the Date column, an empty field
\* being NaN and any other text of the model (none is a number) a str
read_cell(t) == IF t = <<>> THEN NaN ELSE StrCell(t)

\* history_df['Date'].values after pd.read_csv(CSV_FILE), or the empty
\* column of the new frame
Date_values(file) ==
    [i \in 1..Len(file.rows) |-> read_cell(file.rows[i].Date)]

\* x == y for two cells: NaN equals nothing, a Timestamp equals no str
CellEq(x, y) == x.kind = y.kind /\ x.kind # "nan" /\ x.text = y.text

\* date_label in history_df['Date'].values
contains(values, x) == \E i \in 1..Len(values) : CellEq(values[i], x)

\* pd.concat([history_df, new_row]) and to_csv: the rows read are written
\* again, followed by the new row
appended(file, label, v) ==
    CsvFile([i \in 1..(Len(file.rows) + 1) |->
                IF i <= Len(file.rows)
                THEN [Date |-> CsvText(Date_values(file)[i]),
                      ForeignBalance |-> file.rows[i].ForeignBalance]
                ELSE [Date |-> CsvText(label), ForeignBalance |-> v]])

InitUpdate ==
    /\ history_csv \in {NoFile, CsvFile(<<>>)}
    /\ graphs = 0
    /\ upd_runs = 0
    /\ IdleUpdateRun
    /\ IdleDate
    /\ IdlePdf
    /\ IdleMain
    /\ IdleShutai
    /\ IdleSector

\* update_data() starts
UpdStart ==
    /\ upd_pc = "idle"
    /\ upd_runs < MaxUpdates
    /\ upd_runs' = upd_runs + 1
    /\ upd_pc' = "fetch"
    /\ UNCHANGED <<history_csv, date_label, label_value, graphs>>
    /\ UNCHANGED <<dateVars, pdfVars, mainVars, shVars, secVars>>

\* get_latest_excel_url and extract_foreign_balance give a label and a
\* value, or one of them raises and the run ends
UpdFetch ==
    /\ upd_pc = "fetch"
    /\ \/ \E label \in DateLabels, v \in BalanceValues :
              /\ date_label' = label
              /\ label_value' = v
              /\ upd_pc' = "check"
       \/ /\ upd_pc' = "done"
          /\ UNCHANGED <<date_label, label_value>>
    /\ UNCHANGED <<history_csv, graphs, upd_runs>>
    /\ UNCHANGED <<dateVars, pdfVars, mainVars, shVars, secVars>>

\* the label is found in the column: nothing is written
UpdNoNewData ==
    /\ upd_pc = "check"
    /\ contains(Date_values(history_csv), date_label)
    /\ upd_pc' = "done"
    /\ UNCHANGED <<history_csv, date_label, label_value, graphs, upd_runs>>
    /\ UNCHANGED <<dateVars, pdfVars, mainVars, shVars, secVars>>

\* the label is not found in the column: the row is added, the file is
\* written and the graph is drawn
UpdAppend ==
    /\ upd_pc = "check"
    /\ ~contains(Date_values(history_csv), date_label)
    /\ history_csv' = appended(history_csv, date_label, label_value)
    /\ graphs' = graphs + 1
    /\ upd_pc' = "done"
    /\ UNCHANGED <<date_label, label_value, upd_runs>>
    /\ UNCHANGED <<dateVars, pdfVars, mainVars, shVars, secVars>>

\* update_data() is over
UpdEnd ==
    /\ upd_pc = "done"
    /\ upd_pc' = "idle"
    /\ date_label' = [kind |-> "none", text |-> <<>>]
    /\ label_value' = 0
    /\ UNCHANGED <<history_csv, graphs, upd_runs>>
    /\ UNCHANGED <<dateVars, pdfVars, mainVars, shVars, secVars>>

NextUpdate == UpdStart \/ UpdFetch \/ UpdNoNewData \/ UpdAppend \/ UpdEnd

SpecUpdate == InitUpdate /\ [][NextUpdate]_vars

----------------------------------------------------------------------------
(* Claim about update_data                                                 *)

\* the file has a row whose Date is the text of the label
LabelInFile ==
    \E i \in 1..Len(history_csv.rows) :
        history_csv.rows[i].Date = CsvText(date_label)

\* C8: when the label extracted is already in the Date column of
\* history.csv the run changes neither the file nor the graph; when it is
\* not, the run appends exactly the row (label, value) after the rows the
\* file has.
C8_PresentNothingAbsentOne ==
    [][upd_pc = "check" =>
          IF LabelInFile
          THEN history_csv' = history_csv /\ graphs' = graphs
          ELSE /\ history_csv'.rows =
                      Append(history_csv.rows,
                             [Date |-> CsvText(date_label),
                              ForeignBalance |-> label_value])
               /\ graphs' = graphs + 1]_vars

\* a run has appended the date cell of 2024-01-05 to a file that already
\* had a row of that label
C8_Witness ==
    /\ upd_pc = "done"
    /\ date_label.kind = "timestamp"
    /\ Len(history_csv.rows) = 2
    /\ history_csv.rows[1].Date = CsvText(date_label)
    /\ history_csv.rows[2].Date = CsvText(date_label)
    /\ graphs = 2

----------------------------------------------------------------------------
(* Specification SpecShutai: runs of scrape_shutai_data() of               *)
(* src/shutai_scraper.py                                                   *)
(* A row of the table #datatbl is [kind, date_text, foreign]: kind "td" is *)
(* a row of 14 or more td cells, "th" a header row, "short" a row of fewer *)
(* cells and "yy" a row of class yy; foreign is parse_value of its cell.   *)

MaxTableRows == 2   \* rows of the table of one run
MaxScrapes == 2     \* runs of scrape_shutai_data()

KwGetsukei == "getsukei"

JsonFile(records) == [state |-> "rows", rows |-> records]

\* the rows the page can show: a week, the same week written without
\* padding, an earlier week followed by a note, a day that does not exist,
\* a monthly total, and the rows that are skipped for their form
TableRows ==
    { [kind |-> "td", date_text |-> Week1, foreign |-> 100],
      [kind |-> "td", date_text |-> <<"2", "0", "2", "4", "/", "1", "/", "5">>,
       foreign |-> 200],
      [kind |-> "td",
       date_text |-> <<"2", "0", "2", "3", "/", "1", "2", "/", "2", "9", " ", "w">>,
       foreign |-> 100],
      [kind |-> "td", date_text |-> <<"2", "0", "2", "4", "/", "0", "2", "/", "3", "0">>,
       foreign |-> 100],
      [kind |-> "td", date_text |-> <<"2", "0", "2", "4", "/", "0", "1", KwGetsukei>>,
       foreign |-> 100],
      [kind |-> "th", date_text |-> <<>>, foreign |-> 0],
      [kind |-> "short", date_text |-> Week2, foreign |-> 100],
      [kind |-> "yy", date_text |-> Week2, foreign |-> 100] }

\* text.strip().split()[0] of a text that starts with no blank
FirstToken(text) ==
    Then({i \in 1..Len(text) : text[i] = Space}, LAMBDA blanks :
        IF blanks = {} THEN text
        ELSE SubSeq(text, 1, (CHOOSE i \in blanks : \A j \in blanks : i <= j) - 1))

AllDigits(t) == \A i \in 1..Len(t) : t[i] \in Digit

\* the year, month and day fields of a text with two slashes
SlashFields(text, s1, s2) ==
    [year |-> SubSeq(text, 1, s1 - 1),
     month |-> SubSeq(text, s1 + 1, s2 - 1),
     day |-> SubSeq(text, s2 + 1, Len(text))]

\* the fields are what %Y, %m and %d accept and name a day of the calendar
FieldsOk(f) ==
    /\ Len(f.year) = 4 /\ Len(f.month) \in 1..2 /\ Len(f.day) \in 1..2
    /\ AllDigits(f.year) /\ AllDigits(f.month) /\ AllDigits(f.day)
    /\ ParseInt(f.month) \in 1..12
    /\ ParseInt(f.day) \in 1..DaysInMonth(ParseInt(f.year), ParseInt(f.month))

\* datetime.strptime(text, '%Y/%m/%d'): the date as a number that orders
\* dates, or -1 when it raises ValueError
strptime(text) ==
    Then({i \in 1..Len(text) : text[i] = "/"}, LAMBDA slashes :
        IF Cardinality(slashes) # 2 THEN -1
        ELSE Then(SlashFields(text,
                      CHOOSE i \in slashes : \A j \in slashes : i <= j,
                      CHOOSE i \in slashes : \A j \in slashes : i >= j),
                  LAMBDA f :
                      IF FieldsOk(f)
                      THEN ParseInt(f.year) * 10000 + ParseInt(f.month) * 100
                               + ParseInt(f.day)
                      ELSE -1))

\* the rows of the table that give a record
RowGivesRecord(row) ==
    /\ row.kind = "td"
    /\ \A i \in 1..Len(FirstToken(row.date_text)) :
           FirstToken(row.date_text)[i] # KwGetsukei
    /\ strptime(FirstToken(row.date_text)) # -1

\* the record of a row
RecordOf(row) ==
    [date |-> strftime(strptime(FirstToken(row.date_text))),
     foreign |-> row.foreign]

\* the loop over the rows: new_data
scrape(rows) ==
    LET F[i \in 0..Len(rows)] ==
            IF i = 0 THEN <<>>
            ELSE IF RowGivesRecord(rows[i]) THEN Append(F[i - 1], RecordOf(rows[i]))
            ELSE F[i - 1]
    IN  F[Len(rows)]

\* ord() of the characters of a date string
CharCode(c) == IF c = "-" THEN 45 ELSE 48 + DigitVal(c)

\* a <= b for two Python strings
StrLeq(a, b) ==
    LET n == IF Len(a) < Len(b) THEN Len(a) ELSE Len(b)
        diff == {i \in 1..n : a[i] # b[i]}
    IN  IF diff = {} THEN Len(a) <= Len(b)
        ELSE LET k == CHOOSE i \in diff : \A j \in diff : i <= j
             IN  CharCode(a[k]) < CharCode(b[k])

\* one record put into a list sorted by the date string, after the records
\* that are not greater than it
InsertByKey(list, rec) ==
    Then(Cardinality({i \in 1..Len(list) :
                          \A j \in 1..i : StrLeq(list[j].date, rec.date)}),
         LAMBDA k :
             SubSeq(list, 1, k) \o <<rec>> \o SubSeq(list, k + 1, Len(list)))

\* sorted(list, key=lambda x: x['date'])
sorted(list) ==
    LET F[i \in 0..Len(list)] ==
            IF i = 0 THEN <<>>
            ELSE Then(F[i - 1], LAMBDA done : InsertByKey(done, list[i]))
    IN  F[Len(list)]

\* json.load(f) of the file, [] when the file is missing or json.load raises
existing_data(file) == IF file.state = "rows" THEN file.rows ELSE <<>>

\* data_map.values() after the items were put in in order: one item per
\* date, at the place of the date's first item, being the date's last item
data_map(items) ==
    LET last(d) == items[CHOOSE j \in 1..Len(items) :
                             /\ items[j].date = d
                             /\ \A k \in (j + 1)..Len(items) : items[k].date # d]
        F[i \in 0..Len(items)] ==
            IF i = 0 THEN <<>>
            ELSE IF \E j \in 1..(i - 1) : items[j].date = items[i].date
                 THEN F[i - 1]
                 ELSE Append(F[i - 1], last(items[i].date))
    IN  F[Len(items)]

InitShutai ==
    /\ shutai_json \in {NoFile, CorruptFile}
    /\ sh_runs = 0
    /\ IdleShutaiRun
    /\ IdleDate
    /\ IdlePdf
    /\ IdleMain
    /\ IdleUpdate
    /\ IdleSector

\* scrape_shutai_data() starts; DEBUG_MODE is what the environment says
ShutaiStart ==
    /\ sh_pc = "idle"
    /\ sh_runs < MaxScrapes
    /\ sh_runs' = sh_runs + 1
    /\ debug_mode' \in BOOLEAN
    /\ sh_pc' = "scrape"
    /\ UNCHANGED <<shutai_json, new_data>>
    /\ UNCHANGED <<dateVars, pdfVars, mainVars, updVars, secVars>>

\* the table is fetched and its rows are parsed; a fetch that fails or
\* finds no table gives [], as a table without rows does
ShutaiScrape ==
    /\ sh_pc = "scrape"
    /\ \E rows \in SeqsUpTo(TableRows, MaxTableRows) : new_data' = scrape(rows)
    /\ sh_pc' = "save"
    /\ UNCHANGED <<shutai_json, debug_mode, sh_runs>>
    /\ UNCHANGED <<dateVars, pdfVars, mainVars, updVars, secVars>>

\* no record: the run returns without saving
ShutaiAbort ==
    /\ sh_pc = "save"
    /\ Len(new_data) = 0
    /\ sh_pc' = "done"
    /\ UNCHANGED <<shutai_json, debug_mode, new_data, sh_runs>>
    /\ UNCHANGED <<dateVars, pdfVars, mainVars, updVars, secVars>>

\* DEBUG MODE: the file is overwritten with the sorted new records
ShutaiSaveDebug ==
    /\ sh_pc = "save"
    /\ Len(new_data) # 0
    /\ debug_mode
    /\ shutai_json' = JsonFile(sorted(new_data))
    /\ sh_pc' = "done"
    /\ UNCHANGED <<debug_mode, new_data, sh_runs>>
    /\ UNCHANGED <<dateVars, pdfVars, mainVars, updVars, secVars>>

\* NORMAL MODE: the new records are merged into the existing ones by date
ShutaiSaveNormal ==
    /\ sh_pc = "save"
    /\ Len(new_data) # 0
    /\ ~debug_mode
    /\ shutai_json' = JsonFile(sorted(data_map(existing_data(shutai_json) \o new_data)))
    /\ sh_pc' = "done"
    /\ UNCHANGED <<debug_mode, new_data, sh_runs>>
    /\ UNCHANGED <<dateVars, pdfVars, mainVars, updVars, secVars>>

\* scrape_shutai_data() is over
ShutaiEnd ==
    /\ sh_pc = "done"
    /\ sh_pc' = "idle"
    /\ debug_mode' = FALSE
    /\ new_data' = <<>>
    /\ UNCHANGED <<shutai_json, sh_runs>>
    /\ UNCHANGED <<dateVars, pdfVars, mainVars, updVars, secVars>>

NextShutai ==
    \/ ShutaiStart \/ ShutaiScrape \/ ShutaiAbort
    \/ ShutaiSaveDebug \/ ShutaiSaveNormal \/ ShutaiEnd

SpecShutai == InitShutai /\ [][NextShutai]_vars

----------------------------------------------------------------------------
(* Claim about scrape_shutai_data                                          *)

\* C6: whenever shutai_data.json holds a list, in DEBUG mode as in normal
\* mode, no two of its records have the same date and the records are in
\* ascending order of their dates.
C6_OnePerDateAscending ==
    shutai_json.state = "rows" =>
        /\ \A i, j \in 1..Len(shutai_json.rows) :
               i # j => shutai_json.rows[i].date # shutai_json.rows[j].date
        /\ \A i \in 1..(Len(shutai_json.rows) - 1) :
               to_datetime(shutai_json.rows[i].date)
                   <= to_datetime(shutai_json.rows[i + 1].date)

\* a run in DEBUG mode has saved two records of one date
C6_Witness ==
    /\ sh_pc = "done"
    /\ debug_mode
    /\ shutai_json.state = "rows"
    /\ Len(shutai_json.rows) = 2
    /\ shutai_json.rows[1].date = shutai_json.rows[2].date
    /\ shutai_json.rows[1].foreign # shutai_json.rows[2].foreign

----------------------------------------------------------------------------
(* Specification SpecSector: runs of main() of src/sector_manager.py       *)
(* history.csv is the file main.py writes.  market_returns is the list of  *)
(* the weekly rows fetched, each [month, valid]: the month of January or   *)
(* February 2024 it lies in and whether some ticker has a return in it.    *)

MaxJpxRows == 3     \* rows of history.csv
MaxWeeks == 2       \* weekly rows of the market data
MaxSectorRuns == 2  \* runs of main()

\* load_sectors(): sectors.json is read, or written with the default
\* sectors when it is missing or unreadable
load_sectors(file) == IF file = "ok" THEN file ELSE "ok"

\* load_jpx_history() returns None: history.csv is missing, unreadable, has
\* no row or has a date that cannot be parsed
jpx_df_is_None(file) ==
    \/ file.state # "rows"
    \/ Len(file.rows) = 0
    \/ \E i \in 1..Len(file.rows) : ~ValidDate(file.rows[i].date)

\* load_jpx_history() when it returns a frame: the rows with parsed dates,
\* sorted
load_jpx_history(file) == sort_values(parse_dates(file.rows))

\* fetch_market_data(): the weekly rows, an empty frame when the download
\* fails or gives nothing
MarketWeeks == [month : {1, 2}, valid : BOOLEAN]

\* market_returns[mask].sort_index() for the year and month of a date
monthly_data(returns, ts) ==
    SelectSeq(returns, LAMBDA w : ts \div 10000 = 2024 /\ w.month = (ts \div 100) % 100)

\* lines 171-225 for one row: the entry appended to output["data"], if any
entries_of(returns, row) ==
    LET monthly == monthly_data(returns, row.date)
        target_week_idx == (row.date % 100) - 1
    IN  IF target_week_idx < 0 \/ target_week_idx >= Len(monthly) THEN <<>>
        ELSE IF monthly[target_week_idx + 1].valid
             THEN << [date |-> strftime(row.date), flow |-> row.balance] >>
             ELSE <<>>

InitSector ==
    /\ csv \in {NoFile, CorruptFile} \cup {BaseFile(k) : k \in 0..MaxJpxRows}
    /\ trend_png = FALSE
    /\ runs = 0
    /\ IdleRun
    /\ sectors_json \in {"missing", "corrupt", "ok"}
    /\ sector_data_json \in {NoFile, JsonFile(<<>>)}
    /\ sec_runs = 0
    /\ IdleSectorRun
    /\ IdleDate
    /\ IdlePdf
    /\ IdleUpdate
    /\ IdleShutai

\* main() starts: load_sectors()
SectorStart ==
    /\ sec_pc = "idle"
    /\ sec_runs < MaxSectorRuns
    /\ sec_runs' = sec_runs + 1
    /\ sectors_json' = load_sectors(sectors_json)
    /\ sec_pc' = "load"
    /\ UNCHANGED <<sector_data_json, market_returns, jpx_row, output_data, sec_written>>
    /\ UNCHANGED <<dateVars, pdfVars, mainVars, updVars, shVars>>

\* jpx_df is None: main returns (lines 144-146)
AfterNoHistory == "done"

\* load_jpx_history() gives None
SectorNoHistory ==
    /\ sec_pc = "load"
    /\ jpx_df_is_None(csv)
    /\ sec_pc' = AfterNoHistory
    /\ UNCHANGED <<sectors_json, sector_data_json, market_returns, jpx_row,
                   output_data, sec_written, sec_runs>>
    /\ UNCHANGED <<dateVars, pdfVars, mainVars, updVars, shVars>>

\* load_jpx_history() gives the rows: the market data are fetched
SectorFetch ==
    /\ sec_pc = "load"
    /\ ~jpx_df_is_None(csv)
    /\ \E returns \in SeqsUpTo(MarketWeeks, MaxWeeks) :
           /\ market_returns' = returns
           /\ sec_pc' = IF returns = <<>> THEN "write" ELSE "rows"
    /\ jpx_row' = 0
    /\ output_data' = <<>>
    /\ UNCHANGED <<sectors_json, sector_data_json, sec_written, sec_runs>>
    /\ UNCHANGED <<dateVars, pdfVars, mainVars, updVars, shVars>>

\* the loop over the rows of the history takes the next row
SectorRow ==
    /\ sec_pc = "rows"
    /\ jpx_row < Len(load_jpx_history(csv))
    /\ jpx_row' = jpx_row + 1
    /\ output_data' =
           output_data \o entries_of(market_returns, load_jpx_history(csv)[jpx_row + 1])
    /\ UNCHANGED <<sectors_json, sector_data_json, sec_pc, market_returns,
                   sec_written, sec_runs>>
    /\ UNCHANGED <<dateVars, pdfVars, mainVars, updVars, shVars>>

\* the loop has taken every row
SectorRowsDone ==
    /\ sec_pc = "rows"
    /\ jpx_row >= Len(load_jpx_history(csv))
    /\ sec_pc' = "write"
    /\ UNCHANGED <<sectors_json, sector_data_json, market_returns, jpx_row,
                   output_data, sec_written, sec_runs>>
    /\ UNCHANGED <<dateVars, pdfVars, mainVars, updVars, shVars>>

\* sector_data.json is written with the entries, none included
SectorWrite ==
    /\ sec_pc = "write"
    /\ sector_data_json' = JsonFile(output_data)
    /\ sec_written' = TRUE
    /\ sec_pc' = "done"
    /\ UNCHANGED <<sectors_json, market_returns, jpx_row, output_data, sec_runs>>
    /\ UNCHANGED <<dateVars, pdfVars, mainVars, updVars, shVars>>

\* main() is over
SectorEnd ==
    /\ sec_pc = "done"
    /\ sec_pc' = "idle"
    /\ market_returns' = <<>>
    /\ jpx_row' = 0
    /\ output_data' = <<>>
    /\ sec_written' = FALSE
    /\ UNCHANGED <<sectors_json, sector_data_json, sec_runs>>
    /\ UNCHANGED <<dateVars, pdfVars, mainVars, updVars, shVars>>

NextSector ==
    \/ SectorStart \/ SectorNoHistory \/ SectorFetch \/ SectorRow
    \/ SectorRowsDone \/ SectorWrite \/ SectorEnd

SpecSector == InitSector /\ [][NextSector]_vars

----------------------------------------------------------------------------
(* Claim about main() of sector_manager.py                                 *)

\* C5: every run of main() of sector_manager.py that has come to its end
\* has written sector_data.json, and the file exists.
C5_AlwaysGenerates ==
    sec_pc = "done" => sec_written /\ sector_data_json.state = "rows"

\* a run has ended without history.csv and there is no sector_data.json
C5_Witness ==
    /\ sec_pc = "done"
    /\ csv = NoFile
    /\ ~sec_written
    /\ sector_data_json = NoFile

====
